---- MODULE Spec2Model ----
(***************************************************************************)
(* deal.II step-16: LaplaceProblem<2>.  Q1 elements on the unit square,    *)
(* refined globally once per cycle.  Matrix entries are kept in units of   *)
(* 1/6 and right-hand-side entries in units of 1/(4 * 4^(NCycles-1)), so   *)
(* that every quantity the assemblers compute is an integer.               *)
(***************************************************************************)
EXTENDS Integers, Sequences, FiniteSets, TLC

VARIABLES
    pc,                 \* position in run() / in the method being executed
    cycle,              \* loop variable of run()
    traversal,          \* direction in which the mesh iterators walk the cells
    cells, active,      \* triangulation: all cells <<level, index>>, and the leaves
    mg_dof_handler,     \* [n_dofs, level_n_dofs]: result of distribute_dofs
    sparsity_pattern,   \* [rows, cols, entries]: entries[r] = columns of row r
    system_matrix,      \* row -> (column of the pattern -> value)
    mg_sparsity,        \* level -> [rows, cols, entries]
    mg_matrices,        \* level -> (row -> (column -> value))
    solution,
    system_rhs,
    cell,               \* cell iterator of the running assembler
    level,              \* assemble_multigrid: level of the current cell
    cell_matrix,        \* local dense matrix of the running assembler
    cell_rhs,           \* local load vector of assemble_system
    local_dof_indices,  \* index list of the running assembler
    stdout,             \* lines written to std::cout in the current cycle
    files,              \* solution-<cycle>.gnuplot files: <<cycle, solution>>
    hist,               \* history: components run since the last setup_system
    visited,            \* history: cells the assembler's loop has visited, in order
    n_generated,        \* history: calls of GridGenerator::hyper_cube
    n_refined,          \* history: calls of refine_global
    cg_state            \* history: outcome of cg.solve since the last setup_system

vars == <<pc, cycle, traversal, cells, active, mg_dof_handler, sparsity_pattern,
          system_matrix, mg_sparsity, mg_matrices, solution, system_rhs, cell,
          level, cell_matrix, cell_rhs, local_dof_indices, stdout, files, hist,
          visited, n_generated, n_refined, cg_state>>

mesh_vars == <<cells, active, n_generated, n_refined>>
level_vars == <<mg_sparsity, mg_matrices>>
system_vars == <<system_matrix, solution, system_rhs>>
local_vars == <<cell, level, cell_matrix, cell_rhs, local_dof_indices, visited>>

-----------------------------------------------------------------------------
(* Bounds and program constants *)

\* for (cycle = 0; cycle < 6; ++cycle) in run()
NCycles == 6

\* SolverControl(1000, 1e-12)
max_steps == 1000

\* levels of the meshes on which the member functions are called one at a time
MaxLevels == 2

\* member-function calls after one setup_system
MaxCalls == 2

\* largest CG step count that is told apart in the convergence line
MaxReported == 8

\* FE_Q<2>(1): one DoF per vertex of a quadrilateral
dofs_per_cell == 4

\* a refined quadrilateral has four children
children_per_cell == 4

-----------------------------------------------------------------------------
(* Arithmetic helpers *)

RECURSIVE Pow(_, _)
Pow(b, n) == IF n = 0 THEN 1 ELSE b * Pow(b, n - 1)

RECURSIVE SumFn(_, _)
SumFn(f, S) ==
    IF S = {} THEN 0
    ELSE LET e == CHOOSE x \in S : TRUE
         IN  f[e] + SumFn(f, S \ {e})

Last(s) == s[Len(s)]

Local == 0 .. (dofs_per_cell - 1)

LocalPairs == {<<i, j>> : i \in Local, j \in Local}

END == <<-1, -1>>

-----------------------------------------------------------------------------
(* Triangulation<2>: hyper_cube, refine_global, iterators *)

n_levels(cs) == Cardinality({c[1] : c \in cs})

CellsOnLevel(cs, l) == {c \in cs : c[1] = l}

hyper_cube == {<<0, 0>>}

Child(c, k) == <<c[1] + 1, children_per_cell * c[2] + k>>

refine_global(act) == {Child(c, k) : c \in act, k \in 0 .. (children_per_cell - 1)}

\* the cells of one level, in the order of their indices
LevelSequence(cs, l) == [k \in 1 .. Cardinality(CellsOnLevel(cs, l)) |-> <<l, k - 1>>]

RECURSIVE LevelsFrom(_, _)
LevelsFrom(cs, l) ==
    IF CellsOnLevel(cs, l) = {} THEN <<>>
    ELSE LevelSequence(cs, l) \o LevelsFrom(cs, l + 1)

Reverse(q) == [k \in 1 .. Len(q) |-> q[Len(q) + 1 - k]]

\* the cells that begin() .. end() of the cell iterator passes through: level
\* by level and index by index; walked from either end
CellSequence(cs, dir) ==
    IF dir = "forward" THEN LevelsFrom(cs, 0) ELSE Reverse(LevelsFrom(cs, 0))

\* the same for begin_active() .. end(): cells that have children are skipped
ActiveCellSequence(cs, act, dir) ==
    LET IsActive(c) == c \in act
    IN  SelectSeq(CellSequence(cs, dir), IsActive)

-----------------------------------------------------------------------------
(* Cell geometry and MGDoFHandler<2> with FE_Q(1): one DoF per vertex *)

RECURSIVE PosX(_, _)
PosX(l, k) == IF l = 0 THEN 0 ELSE 2 * PosX(l - 1, k \div 4) + (k % 2)

RECURSIVE PosY(_, _)
PosY(l, k) == IF l = 0 THEN 0 ELSE 2 * PosY(l - 1, k \div 4) + ((k % 4) \div 2)

\* vertex i of cell c, in the vertex grid of the cell's own level
VertexX(c, i) == PosX(c[1], c[2]) + (i % 2)

VertexY(c, i) == PosY(c[1], c[2]) + (i \div 2)

GridSize(l) == Pow(2, l)

OnBoundary(c, i) ==
    \/ VertexX(c, i) \in {0, GridSize(c[1])}
    \/ VertexY(c, i) \in {0, GridSize(c[1])}

FinestLevel(dh) == Cardinality(DOMAIN dh.level_n_dofs) - 1

\* level-local numbering: vertices of the level's own grid, row by row
get_mg_dof_indices(c) ==
    [i \in Local |-> VertexX(c, i) + VertexY(c, i) * (GridSize(c[1]) + 1)]

\* global numbering: vertices of the active (finest) grid, row by row
get_dof_indices(dh, c) ==
    LET f == Pow(2, FinestLevel(dh) - c[1])
    IN  [i \in Local |->
            f * VertexX(c, i) + f * VertexY(c, i) * (GridSize(FinestLevel(dh)) + 1)]

\* the DoF indices met on a set of cells whose index lists are given
DofsOn(lists) == {idx[i] : idx \in lists, i \in Local}

distribute_dofs(cs, act) ==
    LET nl   == n_levels(cs)
        lvls == [l \in 0 .. (nl - 1) |->
                    Cardinality(DofsOn({get_mg_dof_indices(c) : c \in CellsOnLevel(cs, l)}))]
        dh0  == [n_dofs |-> 0, level_n_dofs |-> lvls]
    IN  [n_dofs       |-> Cardinality(DofsOn({get_dof_indices(dh0, c) : c \in act})),
         level_n_dofs |-> lvls]

\* every DoF of a cell couples with every DoF of the same cell: the columns
\* of the cell go into the rows of the cell
RECURSIVE AddCell(_, _, _)
AddCell(rows, idx, i) ==
    IF i = dofs_per_cell THEN rows
    ELSE AddCell([rows EXCEPT ![idx[i]] = @ \cup {idx[j] : j \in Local}], idx, i + 1)

\* the cells lists[lo] .. lists[hi] one after the other: the lower half of the
\* range, then the upper half (the test makes the lower half be evaluated
\* before the upper half is entered)
RECURSIVE Coupling(_, _, _, _)
Coupling(rows, lists, lo, hi) ==
    IF lo > hi THEN rows
    ELSE IF lo = hi THEN AddCell(rows, lists[lo], 0)
    ELSE LET mid   == (lo + hi) \div 2
             lower == Coupling(rows, lists, lo, mid)
         IN  IF DOMAIN lower = {} THEN lower
             ELSE Coupling(lower, lists, mid + 1, hi)

\* DoFTools::make_sparsity_pattern after reinit(n, n, ...) and before compress()
make_sparsity_pattern(dh, cs, act) ==
    LET q     == ActiveCellSequence(cs, act, "forward")
        lists == [k \in 1 .. Len(q) |-> get_dof_indices(dh, q[k])]
    IN  [rows    |-> dh.n_dofs,
         cols    |-> dh.n_dofs,
         entries |-> Coupling([r \in 0 .. (dh.n_dofs - 1) |-> {}], lists, 1, Len(q))]

\* MGTools::make_sparsity_pattern for one level
mg_make_sparsity_pattern(dh, cs, l) ==
    LET q     == LevelSequence(cs, l)
        lists == [k \in 1 .. Len(q) |-> get_mg_dof_indices(q[k])]
    IN  [rows    |-> dh.level_n_dofs[l],
         cols    |-> dh.level_n_dofs[l],
         entries |-> Coupling([r \in 0 .. (dh.level_n_dofs[l] - 1) |-> {}], lists, 1, Len(q))]

\* SparseMatrix::reinit(pattern): all entries of the pattern, zero
MatrixReinit(old, sp) == [r \in DOMAIN sp.entries |-> [c \in sp.entries[r] |-> 0]]

\* a resize that keeps the entries it already had
VectorResizeKeep(old, n) ==
    [i \in 0 .. (n - 1) |-> IF i \in DOMAIN old THEN old[i] ELSE 0]

\* Vector::reinit(n): n entries, zero
VectorReinit(old, n) == [i \in 0 .. (n - 1) |-> 0]

-----------------------------------------------------------------------------
(* Local integration *)

\* the local matrix is not cleared between cells
ClearMatrixOmitted(m) == m

\* FullMatrix::clear / Vector::clear: all entries zero, size kept
ClearMatrix(m) == [p \in DOMAIN m |-> 0]

ClearVector(v) == [i \in DOMAIN v |-> 0]

\* sum over the 2x2 Gauss points of grad(phi_i).grad(phi_j) JxW on a square
\* cell, in units of 1/6: 2/3 on the diagonal, -1/3 across the cell and
\* -1/6 along an edge
Stiffness(i, j) ==
    IF i = j THEN 4
    ELSE IF i + j = dofs_per_cell - 1 THEN -2
    ELSE -1

\* sum over the Gauss points of phi_i * 1.0 * JxW = h^2/4 on a cell of level l
Load(l) == Pow(4, NCycles - 1 - l)

IntegrateMatrix(m) == [p \in DOMAIN m |-> m[p] + Stiffness(p[1], p[2])]

IntegrateRhs(v, l) == [i \in DOMAIN v |-> v[i] + Load(l)]

\* the scatter assigns (SparseMatrix::set) where it should add
RECURSIVE ScatterMatrixSet(_, _, _, _)
ScatterMatrixSet(M, idx, cm, k) ==
    IF k = dofs_per_cell * dofs_per_cell THEN M
    ELSE LET i == k \div dofs_per_cell
             j == k % dofs_per_cell
         IN  ScatterMatrixSet([M EXCEPT ![idx[i]][idx[j]] = cm[<<i, j>>]],
                              idx, cm, k + 1)

\* the double loop of SparseMatrix::add calls: k runs over (i, j), i outermost
RECURSIVE ScatterMatrix(_, _, _, _)
ScatterMatrix(M, idx, cm, k) ==
    IF k = dofs_per_cell * dofs_per_cell THEN M
    ELSE LET i == k \div dofs_per_cell
             j == k % dofs_per_cell
         IN  ScatterMatrix([M EXCEPT ![idx[i]][idx[j]] = @ + cm[<<i, j>>]],
                           idx, cm, k + 1)

RECURSIVE ScatterVector(_, _, _, _)
ScatterVector(b, idx, cv, i) ==
    IF i = dofs_per_cell THEN b
    ELSE ScatterVector([b EXCEPT ![idx[i]] = @ + cv[i]], idx, cv, i + 1)

-----------------------------------------------------------------------------
(* Boundary values *)

\* VectorTools::interpolate_boundary_values(dof_handler, 0, ZeroFunction)
interpolate_boundary_values(dh, act) ==
    LET D == {get_dof_indices(dh, f[1])[f[2]] : f \in {g \in act \X Local : OnBoundary(g[1], g[2])}}
    IN  [d \in D |-> 0]

MatrixOne == 6

\* MatrixTools::apply_boundary_values: rows and columns of the constrained
\* DoFs are zeroed, their diagonal becomes 1, their right-hand side and
\* solution entries the prescribed value; the other right-hand-side entries
\* lose the eliminated column times the prescribed value.
apply_boundary_values(bv, A, x, b) ==
    LET D == DOMAIN bv
        col(r) == D \cap DOMAIN A[r]
    IN  [matrix   |-> [r \in DOMAIN A |-> [c \in DOMAIN A[r] |->
                          IF r \in D \/ c \in D
                          THEN IF r = c THEN MatrixOne ELSE 0
                          ELSE A[r][c]]],
         solution |-> [r \in DOMAIN x |-> IF r \in D THEN bv[r] ELSE x[r]],
         rhs      |-> [r \in DOMAIN b |->
                          IF r \in D THEN bv[r]
                          ELSE b[r] - SumFn([d \in col(r) |-> A[r][d] * bv[d]], col(r))]]

-----------------------------------------------------------------------------
(* State after construction of LaplaceProblem<2> *)

\* no assembler is running: its local objects do not exist
NoLocals ==
    /\ cell = END
    /\ level = 0
    /\ cell_matrix = [p \in LocalPairs |-> 0]
    /\ cell_rhs = [i \in Local |-> 0]
    /\ local_dof_indices = [i \in Local |-> 0]
    /\ visited = <<>>

Constructed ==
    /\ cycle = 0
    /\ cells = {}
    /\ active = {}
    /\ mg_dof_handler = [n_dofs |-> 0, level_n_dofs |-> <<>>]
    /\ sparsity_pattern = [rows |-> 0, cols |-> 0, entries |-> <<>>]
    /\ system_matrix = <<>>
    /\ mg_sparsity = <<>>
    /\ mg_matrices = <<>>
    /\ solution = <<>>
    /\ system_rhs = <<>>
    /\ NoLocals
    /\ stdout = <<>>
    /\ files = {}
    /\ hist = <<>>
    /\ n_generated = 0
    /\ n_refined = 0
    /\ cg_state = "none"

Init ==
    /\ Constructed
    /\ pc = "cycle_begin"
    /\ traversal = "forward"

-----------------------------------------------------------------------------
(* setup_system *)

\* an assembler returns: its local objects go out of scope
DestroyLocals ==
    /\ cell' = END
    /\ level' = 0
    /\ cell_matrix' = [p \in LocalPairs |-> 0]
    /\ cell_rhs' = [i \in Local |-> 0]
    /\ local_dof_indices' = [i \in Local |-> 0]
    /\ visited' = <<>>

SetupSystem(ret) ==
    /\ pc = "setup_system"
    /\ LET dh == distribute_dofs(cells, active)
           sp == make_sparsity_pattern(dh, cells, active)
           nl == n_levels(cells)
           ms == [l \in 0 .. (nl - 1) |-> mg_make_sparsity_pattern(dh, cells, l)]
       IN  /\ mg_dof_handler' = dh
           /\ stdout' = Append(stdout, <<"Number of degrees of freedom", dh.n_dofs>>)
           /\ sparsity_pattern' = sp
           /\ system_matrix' = MatrixReinit(system_matrix, sp)
           /\ solution' = VectorReinit(solution, dh.n_dofs)
           /\ system_rhs' = VectorReinit(system_rhs, dh.n_dofs)
           /\ mg_sparsity' = ms
           /\ mg_matrices' = [l \in 0 .. (nl - 1) |-> MatrixReinit(<<>>, ms[l])]
    /\ hist' = <<"setup">>
    /\ cg_state' = "none"
    /\ pc' = ret
    /\ UNCHANGED <<cycle, traversal, mesh_vars, local_vars, files>>

-----------------------------------------------------------------------------
(* assemble_system *)

\* one pass through the body of the loop over the active cells
AssembleSystemBody(st, dh, c) ==
    LET cm  == IntegrateMatrix(ClearMatrix(st.cell_matrix))
        cv  == IntegrateRhs(ClearVector(st.cell_rhs), c[1])
        idx == get_dof_indices(dh, c)
    IN  [cell_matrix       |-> cm,
         cell_rhs          |-> cv,
         local_dof_indices |-> idx,
         system_matrix     |-> ScatterMatrix(st.system_matrix, idx, cm, 0),
         system_rhs        |-> ScatterVector(st.system_rhs, idx, cv, 0),
         visited           |-> Append(st.visited, c)]

\* for (; cell != endc; ++cell) over the cells q[lo] .. q[hi]: the lower half
\* of the range, then the upper half (the test on the cells visited makes the
\* lower half be evaluated before the upper half is entered)
RECURSIVE AssembleSystemLoop(_, _, _, _, _)
AssembleSystemLoop(st, dh, q, lo, hi) ==
    IF lo > hi THEN st
    ELSE IF lo = hi THEN AssembleSystemBody(st, dh, q[lo])
    ELSE LET mid   == (lo + hi) \div 2
             lower == AssembleSystemLoop(st, dh, q, lo, mid)
         IN  IF Len(lower.visited) = 0 THEN lower
             ELSE AssembleSystemLoop(lower, dh, q, mid + 1, hi)

\* the local objects are constructed and the loop runs over the active cells
AssembleSystemCells ==
    /\ pc = "assemble_system"
    /\ LET st0 == [cell_matrix       |-> [p \in LocalPairs |-> 0],
                   cell_rhs          |-> [i \in Local |-> 0],
                   local_dof_indices |-> [i \in Local |-> 0],
                   system_matrix     |-> system_matrix,
                   system_rhs        |-> system_rhs,
                   visited           |-> <<>>]
           q   == ActiveCellSequence(cells, active, traversal)
           st  == AssembleSystemLoop(st0, mg_dof_handler, q, 1, Len(q))
       IN  /\ cell_matrix' = st.cell_matrix
           /\ cell_rhs' = st.cell_rhs
           /\ local_dof_indices' = st.local_dof_indices
           /\ system_matrix' = st.system_matrix
           /\ system_rhs' = st.system_rhs
           /\ visited' = st.visited
    /\ cell' = END
    /\ hist' = Append(hist, "assemble_system")
    /\ pc' = "assemble_system_boundary"
    /\ UNCHANGED <<cycle, traversal, mesh_vars, mg_dof_handler, sparsity_pattern,
                   solution, level_vars, level, stdout, files, cg_state>>

\* the elimination works on copies: the members keep their values
AssembleSystemBoundaryOnCopies(ret) ==
    /\ pc = "assemble_system_boundary"
    /\ hist' = Append(hist, "boundary")
    /\ pc' = ret
    /\ DestroyLocals
    /\ UNCHANGED <<cycle, traversal, mesh_vars, mg_dof_handler, sparsity_pattern,
                   system_vars, level_vars, stdout, files, cg_state>>

\* interpolate_boundary_values and apply_boundary_values; then the function returns
AssembleSystemBoundary(ret) ==
    /\ pc = "assemble_system_boundary"
    /\ LET bv == interpolate_boundary_values(mg_dof_handler, active)
           r  == apply_boundary_values(bv, system_matrix, solution, system_rhs)
       IN  /\ system_matrix' = r.matrix
           /\ solution' = r.solution
           /\ system_rhs' = r.rhs
    /\ hist' = Append(hist, "boundary")
    /\ pc' = ret
    /\ DestroyLocals
    /\ UNCHANGED <<cycle, traversal, mesh_vars, mg_dof_handler, sparsity_pattern,
                   level_vars, stdout, files, cg_state>>

-----------------------------------------------------------------------------
(* assemble_multigrid *)

\* the level scatter uses the global index list
MultigridIndicesGlobal(dh, c) == get_dof_indices(dh, c)

\* the index list the level scatter uses (get_mg_dof_indices, not get_dof_indices)
MultigridIndices(dh, c) == get_mg_dof_indices(c)

\* one pass through the body of the loop over all cells
AssembleMultigridBody(st, dh, c) ==
    LET lv  == c[1]
        cm  == IntegrateMatrix(ClearMatrix(st.cell_matrix))
        idx == MultigridIndices(dh, c)
    IN  [level             |-> lv,
         cell_matrix       |-> cm,
         local_dof_indices |-> idx,
         mg_matrices       |-> [st.mg_matrices EXCEPT ![lv] = ScatterMatrix(@, idx, cm, 0)],
         visited           |-> Append(st.visited, c)]

\* for (; cell != endc; ++cell) over the cells q[lo] .. q[hi]: the lower half
\* of the range, then the upper half (the test on the cells visited makes the
\* lower half be evaluated before the upper half is entered)
RECURSIVE AssembleMultigridLoop(_, _, _, _, _)
AssembleMultigridLoop(st, dh, q, lo, hi) ==
    IF lo > hi THEN st
    ELSE IF lo = hi THEN AssembleMultigridBody(st, dh, q[lo])
    ELSE LET mid   == (lo + hi) \div 2
             lower == AssembleMultigridLoop(st, dh, q, lo, mid)
         IN  IF Len(lower.visited) = 0 THEN lower
             ELSE AssembleMultigridLoop(lower, dh, q, mid + 1, hi)

\* the local objects are constructed and the loop runs over the cells of all levels
AssembleMultigridCells ==
    /\ pc = "assemble_multigrid"
    /\ LET st0 == [level             |-> 0,
                   cell_matrix       |-> [p \in LocalPairs |-> 0],
                   local_dof_indices |-> [i \in Local |-> 0],
                   mg_matrices       |-> mg_matrices,
                   visited           |-> <<>>]
           q   == CellSequence(cells, traversal)
           st  == AssembleMultigridLoop(st0, mg_dof_handler, q, 1, Len(q))
       IN  /\ level' = st.level
           /\ cell_matrix' = st.cell_matrix
           /\ local_dof_indices' = st.local_dof_indices
           /\ mg_matrices' = st.mg_matrices
           /\ visited' = st.visited
    /\ cell' = END
    /\ hist' = Append(hist, "assemble_multigrid")
    /\ pc' = "assemble_multigrid_boundary"
    /\ UNCHANGED <<cycle, traversal, mesh_vars, mg_dof_handler, sparsity_pattern,
                   system_vars, mg_sparsity, cell_rhs, stdout, files, cg_state>>

\* the boundary values are applied to the global system, as in assemble_system
AssembleMultigridBoundary(ret) ==
    /\ pc = "assemble_multigrid_boundary"
    /\ LET bv == interpolate_boundary_values(mg_dof_handler, active)
           r  == apply_boundary_values(bv, system_matrix, solution, system_rhs)
       IN  /\ system_matrix' = r.matrix
           /\ solution' = r.solution
           /\ system_rhs' = r.rhs
    /\ hist' = Append(hist, "boundary")
    /\ pc' = ret
    /\ DestroyLocals
    /\ UNCHANGED <<cycle, traversal, mesh_vars, mg_dof_handler, sparsity_pattern,
                   level_vars, stdout, files, cg_state>>

-----------------------------------------------------------------------------
(* solve *)

\* the rows of the matrix that couple their DoF to another DoF
CoupledRows(A) == {r \in DOMAIN A : \E c \in DOMAIN A[r] : c # r /\ A[r][c] # 0}

\* SolverCG::solve with PreconditionSSOR(1.2).  The values of the iterate are
\* not computed: a decoupled (eliminated) row keeps the value its equation
\* fixes, every other entry is represented by a positive number.
cg_solve(A, x, b) ==
    LET coupled == CoupledRows(A)
    IN  [r \in DOMAIN x |-> IF r \in coupled THEN 1 + b[r] ELSE b[r]]

\* SolverControl(1000, 1e-12): the step at which the residual is found below
\* the tolerance; step counts above MaxReported are not told apart
IterationCounts == {k \in 0 .. max_steps : k <= MaxReported}

ConvergenceLine == "CG iterations needed to obtain convergence"

\* cg.solve reaches the tolerance within max_steps iterations and returns
SolveConverged(ret) ==
    /\ pc = "solve"
    /\ solution' = cg_solve(system_matrix, solution, system_rhs)
    /\ cg_state' = "converged"
    /\ \E last_step \in IterationCounts :
          stdout' = Append(stdout, <<ConvergenceLine, last_step>>)
    /\ hist' = Append(hist, "cg")
    /\ pc' = ret
    /\ UNCHANGED <<cycle, traversal, mesh_vars, mg_dof_handler, sparsity_pattern,
                   system_matrix, system_rhs, level_vars, local_vars, files>>

\* the failure of cg.solve is swallowed: solve() reports and returns
SolveFailureIgnored(ret) ==
    /\ pc = "solve"
    /\ solution' = cg_solve(system_matrix, solution, system_rhs)
    /\ cg_state' = "exceeded"
    /\ stdout' = Append(stdout, <<ConvergenceLine, max_steps>>)
    /\ hist' = Append(hist, "cg")
    /\ pc' = ret
    /\ UNCHANGED <<cycle, traversal, mesh_vars, mg_dof_handler, sparsity_pattern,
                   system_matrix, system_rhs, level_vars, local_vars, files>>

\* cg.solve uses up max_steps iterations: the failure leaves solve(), run()
\* and main(), none of which handles it
SolveFailed(ret) ==
    /\ pc = "solve"
    /\ solution' = cg_solve(system_matrix, solution, system_rhs)
    /\ cg_state' = "exceeded"
    /\ pc' = "aborted"
    /\ UNCHANGED <<cycle, traversal, mesh_vars, mg_dof_handler, sparsity_pattern,
                   system_matrix, system_rhs, level_vars, local_vars, stdout, files,
                   hist>>

-----------------------------------------------------------------------------
(* output_results, followed by ++cycle of run() *)

OutputResults ==
    /\ pc = "output_results"
    /\ files' = files \cup {<<cycle, solution>>}
    /\ hist' = Append(hist, "output")
    /\ cycle' = cycle + 1
    /\ pc' = "cycle_begin"
    /\ UNCHANGED <<traversal, mesh_vars, mg_dof_handler, sparsity_pattern, system_vars,
                   level_vars, local_vars, stdout, cg_state>>

-----------------------------------------------------------------------------
(* run *)

\* the mesh is generated in cycle 0 and never refined
RunMeshNeverRefines ==
    /\ pc = "cycle_begin"
    /\ cycle < NCycles
    /\ IF cycle = 0
       THEN /\ cells' = hyper_cube
            /\ active' = hyper_cube
            /\ n_generated' = n_generated + 1
            /\ UNCHANGED n_refined
       ELSE UNCHANGED mesh_vars
    /\ stdout' = <<<<"Cycle", cycle>>,
                   <<"Number of active cells", Cardinality(active')>>,
                   <<"Total number of cells", Cardinality(cells')>>>>
    /\ pc' = "setup_system"
    /\ UNCHANGED <<cycle, traversal, mg_dof_handler, sparsity_pattern, system_vars,
                   level_vars, local_vars, files, hist, cg_state>>

RunMesh ==
    /\ pc = "cycle_begin"
    /\ cycle < NCycles
    /\ IF cycle = 0
       THEN /\ cells' = hyper_cube
            /\ active' = hyper_cube
            /\ n_generated' = n_generated + 1
            /\ UNCHANGED n_refined
       ELSE /\ cells' = cells \cup refine_global(active)
            /\ active' = refine_global(active)
            /\ n_refined' = n_refined + 1
            /\ UNCHANGED n_generated
    /\ stdout' = <<<<"Cycle", cycle>>,
                   <<"Number of active cells", Cardinality(active')>>,
                   <<"Total number of cells", Cardinality(cells')>>>>
    /\ pc' = "setup_system"
    /\ UNCHANGED <<cycle, traversal, mg_dof_handler, sparsity_pattern, system_vars,
                   level_vars, local_vars, files, hist, cg_state>>

RunExit ==
    /\ pc = "cycle_begin"
    /\ cycle >= NCycles
    /\ pc' = "done"
    /\ UNCHANGED <<cycle, traversal, mesh_vars, mg_dof_handler, sparsity_pattern,
                   system_vars, level_vars, local_vars, stdout, files, hist, cg_state>>

Next ==
    \/ RunMesh
    \/ SetupSystem("assemble_system")
    \/ AssembleSystemCells
    \/ AssembleSystemBoundary("solve")
    \/ SolveConverged("output_results")
    \/ SolveFailed("output_results")
    \/ OutputResults
    \/ RunExit

Spec == Init /\ [][Next]_vars

-----------------------------------------------------------------------------
(* The member functions called one at a time, in any order, on any mesh of   *)
(* up to MaxLevels levels: a driver that builds a mesh, sets the system up   *)
(* and then calls assemble_system, assemble_multigrid, solve and the         *)
(* boundary elimination as it likes, MaxCalls calls at most per setup.       *)

InitCalls ==
    /\ Constructed
    /\ pc = "idle"
    /\ traversal \in {"forward", "backward"}

CallMesh ==
    /\ pc = "idle"
    /\ n_levels(cells) < MaxLevels
    /\ IF cells = {}
       THEN /\ cells' = hyper_cube
            /\ active' = hyper_cube
            /\ n_generated' = n_generated + 1
            /\ UNCHANGED n_refined
       ELSE /\ cells' = cells \cup refine_global(active)
            /\ active' = refine_global(active)
            /\ n_refined' = n_refined + 1
            /\ UNCHANGED n_generated
    /\ stdout' = <<>>
    /\ pc' = "setup_system"
    /\ UNCHANGED <<cycle, traversal, mg_dof_handler, sparsity_pattern, system_vars,
                   level_vars, local_vars, files, hist, cg_state>>

IsCall(e) == e \notin {"setup", "boundary"}

NumCalls(h) == Len(SelectSeq(h, IsCall))

Methods == {"assemble_system", "assemble_multigrid", "solve", "apply_boundary_values"}

CallSetup ==
    /\ pc = "idle"
    /\ cells # {}
    /\ pc' = "setup_system"
    /\ stdout' = <<>>
    /\ UNCHANGED <<cycle, traversal, mesh_vars, mg_dof_handler, sparsity_pattern,
                   system_vars, level_vars, local_vars, files, hist, cg_state>>

CallMethod ==
    /\ pc = "idle"
    /\ cells # {}
    /\ NumCalls(hist) < MaxCalls
    /\ pc' \in Methods
    /\ stdout' = <<>>
    /\ UNCHANGED <<cycle, traversal, mesh_vars, mg_dof_handler, sparsity_pattern,
                   system_vars, level_vars, local_vars, files, hist, cg_state>>

\* the Boundary Applier on its own, as both assemblers call it
ApplyBoundary(ret) ==
    /\ pc = "apply_boundary_values"
    /\ LET bv == interpolate_boundary_values(mg_dof_handler, active)
           r  == apply_boundary_values(bv, system_matrix, solution, system_rhs)
       IN  /\ system_matrix' = r.matrix
           /\ solution' = r.solution
           /\ system_rhs' = r.rhs
    /\ hist' = Append(hist, "apply_boundary_values")
    /\ pc' = ret
    /\ UNCHANGED <<cycle, traversal, mesh_vars, mg_dof_handler, sparsity_pattern,
                   level_vars, local_vars, stdout, files, cg_state>>

NextCalls ==
    \/ CallMesh
    \/ CallSetup
    \/ CallMethod
    \/ SetupSystem("idle")
    \/ AssembleSystemCells
    \/ AssembleSystemBoundary("idle")
    \/ AssembleMultigridCells
    \/ AssembleMultigridBoundary("idle")
    \/ ApplyBoundary("idle")
    \/ SolveConverged("idle")
    \/ SolveFailed("idle")

SpecCalls == InitCalls /\ [][NextCalls]_vars

-----------------------------------------------------------------------------
(* Quantities the properties below compare the state with *)

GlobalIdx(c) == get_dof_indices(mg_dof_handler, c)

LevelIdx(c) == get_mg_dof_indices(c)

StiffnessValues == {Stiffness(p[1], p[2]) : p \in LocalPairs}

\* every local entry (i, j) of every cell c of S, with the matrix entry the
\* index lists Idx map it to: <<row, column, c, i, j>>
MatrixContributions(S, Idx(_)) ==
    {<<L[2][i], L[2][j], L[1], i, j>> : L \in {<<c, Idx(c)>> : c \in S},
                                        i \in Local, j \in Local}

\* sum of K_c(i,j) over the contributions of K mapped to the entry p, counted
\* value by value
CellSum(K, p) ==
    LET T == {t \in K : t[1] = p[1] /\ t[2] = p[2]}
    IN  SumFn([v \in StiffnessValues |->
                  v * Cardinality({t \in T : Stiffness(t[4], t[5]) = v})],
              StiffnessValues)

\* every local load entry i of every cell c of S, with the row it is mapped
\* to: <<row, c, i>>
LoadContributions(S, Idx(_)) ==
    {<<L[2][i], L[1], i>> : L \in {<<c, Idx(c)>> : c \in S}, i \in Local}

\* sum of the local load entries of the contributions of K mapped to row r
LoadSum(K, r) ==
    LET T  == {t \in K : t[1] = r}
        Ls == {t[2][1] : t \in T}
    IN  SumFn([l \in Ls |-> Load(l) * Cardinality({t \in T : t[2][1] = l})], Ls)

Range(f) == {f[i] : i \in DOMAIN f}

NoDuplicates(q) == \A a, b \in 1 .. Len(q) : q[a] = q[b] => a = b

Count(h, e) == Cardinality({k \in 1 .. Len(h) : h[k] = e})

Eliminations == {"boundary", "apply_boundary_values"}

IsZero(f) == \A x \in DOMAIN f : f[x] = 0

IsZeroMatrix(M) == \A r \in DOMAIN M : IsZero(M[r])

\* the matrix with the sparsity of M whose entries are given by Entry
MatrixOf(M, Entry(_)) == [r \in DOMAIN M |-> [c \in DOMAIN M[r] |-> Entry(<<r, c>>)]]

VertexCount(l) == (GridSize(l) + 1) * (GridSize(l) + 1)

\* the global system one assemble_system call leaves on a zero system
AssembledOnce ==
    LET K == MatrixContributions(active, GlobalIdx)
        F == LoadContributions(active, GlobalIdx)
        Entry(p) == CellSum(K, p)
    IN  apply_boundary_values(interpolate_boundary_values(mg_dof_handler, active),
                              MatrixOf(system_matrix, Entry),
                              [r \in DOMAIN solution |-> 0],
                              [r \in DOMAIN system_rhs |-> LoadSum(F, r)])

\* the global system a second assemble_system call makes of AssembledOnce
AssembledTwice ==
    LET once == AssembledOnce
        K == MatrixContributions(active, GlobalIdx)
        F == LoadContributions(active, GlobalIdx)
        Entry(p) == once.matrix[p[1]][p[2]] + CellSum(K, p)
    IN  apply_boundary_values(interpolate_boundary_values(mg_dof_handler, active),
                              MatrixOf(system_matrix, Entry),
                              once.solution,
                              [r \in DOMAIN system_rhs |-> once.rhs[r] + LoadSum(F, r)])

TwoCalls == <<"setup", "assemble_system", "boundary", "assemble_system", "boundary">>

-----------------------------------------------------------------------------
(* Properties *)

\* C1: when a cycle of run() ends, the components that ran since the mesh
\* change are, in this order and with none skipped: Setup, Global Assembler
\* and Level Assembler, Boundary Applier, Linear Solver, Output Writer; and
\* the mesh was changed exactly once in the cycle.
C1_StepOrder ==
    (pc = "cycle_begin" /\ cycle > 0) =>
        /\ n_generated + n_refined = cycle
        /\ hist \in {<<"setup", "assemble_system", "assemble_multigrid",
                       "boundary", "cg", "output">>,
                     <<"setup", "assemble_multigrid", "assemble_system",
                       "boundary", "cg", "output">>}

\* C2: when a cycle reaches Solve, assemble_multigrid has run and every level
\* matrix holds stiffness contributions (is not all zero).
C2_LevelMatricesPopulated ==
    pc = "solve" =>
        /\ Count(hist, "assemble_multigrid") >= 1
        /\ \A l \in DOMAIN mg_matrices : ~IsZeroMatrix(mg_matrices[l])

\* C3: when the cell loop of assemble_system has run on a zero system and
\* boundary elimination has not, every active cell was visited exactly once
\* and no other cell was; the local matrix and vector hold the integrals of
\* the cell visited last and nothing of the cells before it; and each matrix
\* and right-hand-side entry is the sum of the local entries that the global
\* index lists map to it - whichever direction the cell iterator walks in.
SystemZeroAtEntry ==
    /\ pc = "assemble_system_boundary"
    /\ Count(hist, "assemble_system") = 1
    /\ \A e \in Eliminations : Count(hist, e) = 0

C3_GlobalAssembly ==
    SystemZeroAtEntry =>
        /\ NoDuplicates(visited)
        /\ Range(visited) = active
        /\ \A p \in LocalPairs : cell_matrix[p] = Stiffness(p[1], p[2])
        /\ \A i \in Local : cell_rhs[i] = Load(Last(visited)[1])
        /\ local_dof_indices = GlobalIdx(Last(visited))
        /\ LET K == MatrixContributions(active, GlobalIdx)
           IN  \A r \in DOMAIN system_matrix : \A c \in DOMAIN system_matrix[r] :
                  system_matrix[r][c] = CellSum(K, <<r, c>>)
        /\ LET F == LoadContributions(active, GlobalIdx)
           IN  \A r \in DOMAIN system_rhs : system_rhs[r] = LoadSum(F, r)

C3_Witness ==
    /\ SystemZeroAtEntry
    /\ Len(visited) > 1
    /\ traversal = "backward"
    /\ \E r \in DOMAIN system_matrix : system_matrix[r][r] > Stiffness(0, 0)

\* C4 as stated: after two assemble_system calls in a row (no Setup between)
\* the matrix and the right-hand side are what the first call left.
C4_SecondCallChangesNothing ==
    (pc = "idle" /\ hist = TwoCalls) =>
        LET once == AssembledOnce
        IN  /\ system_matrix = once.matrix
            /\ system_rhs = once.rhs

\* C4 as amended: assemble_system on a freshly set-up system leaves a system
\* that depends on the mesh / DoF state only; a second call without Setup
\* adds every cell contribution again to what the first call left and
\* eliminates the boundary DoFs again.
C4_SecondCallAccumulates ==
    /\ (pc = "idle" /\ hist = <<"setup", "assemble_system", "boundary">>) =>
          LET once == AssembledOnce
          IN  /\ system_matrix = once.matrix
              /\ system_rhs = once.rhs
              /\ solution = once.solution
    /\ (pc = "idle" /\ hist = TwoCalls) =>
          LET twice == AssembledTwice
          IN  /\ system_matrix = twice.matrix
              /\ system_rhs = twice.rhs

C4_Witness ==
    /\ pc = "idle"
    /\ hist = TwoCalls
    /\ LET once == AssembledOnce
       IN  /\ system_matrix # once.matrix
           /\ system_rhs # once.rhs

\* C5: in every state of a set-up system, eliminating twice gives what
\* eliminating once gives; and right after an elimination every boundary DoF
\* has a zero row and column with diagonal 1, its right-hand side and
\* solution entry equal to the prescribed value, and one more elimination
\* changes nothing.
EliminateCurrent ==
    apply_boundary_values(interpolate_boundary_values(mg_dof_handler, active),
                          system_matrix, solution, system_rhs)

C6_FailureIsFatal ==
    cg_state = "exceeded" =>
        /\ pc = "aborted"
        /\ ~ENABLED Next
        /\ Count(hist, "cg") = 0 /\ Count(hist, "output") = 0
        /\ \A k \in 1 .. Len(stdout) : stdout[k][1] # ConvergenceLine
        /\ \A f \in files : f[1] # cycle

C6_Witness == pc = "aborted" /\ cycle = 2 /\ cg_state = "exceeded"

\* C7: run() goes through cycles 0..5 and ends after the sixth output; the
\* base cell is generated once, in cycle 0, every later cycle refines once
\* before Setup, and in cycle c there are 4^c active cells on c+1 levels.
C7_SixCycles ==
    /\ cycle \in 0 .. NCycles
    /\ pc \in {"cycle_begin", "setup_system", "assemble_system",
               "assemble_system_boundary", "solve", "output_results", "done",
               "aborted"}
    /\ pc \notin {"cycle_begin", "done"} =>
          /\ cycle < NCycles
          /\ n_generated = 1
          /\ n_refined = cycle
          /\ Cardinality(active) = Pow(4, cycle)
          /\ n_levels(cells) = cycle + 1
    /\ pc = "cycle_begin" =>
          /\ n_generated = (IF cycle = 0 THEN 0 ELSE 1)
          /\ n_generated + n_refined = cycle
          /\ {f[1] : f \in files} = 0 .. (cycle - 1)
    /\ pc = "done" =>
          /\ cycle = NCycles
          /\ Last(hist) = "output"
          /\ Cardinality(files) = NCycles
          /\ {f[1] : f \in files} = 0 .. (NCycles - 1)

C7_Witness == pc = "done" /\ Cardinality(active) = Pow(4, NCycles - 1)

\* C8: when the cell loop of assemble_multigrid has run on zero level
\* matrices, every cell of every level was visited exactly once; the local
\* matrix is that of the cell visited last, the level is that cell's level
\* and the index list is its level-local one, inside [0, n_dofs(level)); and
\* the matrix of each level is the sum of the local matrices of exactly the
\* cells of that level, placed by their level-local indices.
LevelsZeroAtEntry ==
    /\ pc = "assemble_multigrid_boundary"
    /\ Count(hist, "assemble_multigrid") = 1

C8_LevelAssembly ==
    LevelsZeroAtEntry =>
        /\ NoDuplicates(visited)
        /\ Range(visited) = cells
        /\ level = Last(visited)[1]
        /\ \A p \in LocalPairs : cell_matrix[p] = Stiffness(p[1], p[2])
        /\ local_dof_indices = LevelIdx(Last(visited))
        /\ \A c \in cells : \A i \in Local :
              LevelIdx(c)[i] \in 0 .. (mg_dof_handler.level_n_dofs[c[1]] - 1)
        /\ \A l \in DOMAIN mg_matrices :
              LET K == MatrixContributions(CellsOnLevel(cells, l), LevelIdx)
              IN  \A r \in DOMAIN mg_matrices[l] : \A c \in DOMAIN mg_matrices[l][r] :
                      mg_matrices[l][r][c] = CellSum(K, <<r, c>>)

C8_Witness ==
    /\ LevelsZeroAtEntry
    /\ n_levels(cells) > 1
    /\ \A l \in DOMAIN mg_matrices : ~IsZeroMatrix(mg_matrices[l])

\* C9: no step of assemble_multigrid changes the global matrix, the
\* right-hand side or the solution, and no step of assemble_system or solve
\* changes a level matrix.
C9_AssemblersOwnTheirMatrices ==
    [][/\ pc \in {"assemble_multigrid", "assemble_multigrid_boundary"} =>
             UNCHANGED system_vars
       /\ pc \in {"assemble_system", "assemble_system_boundary", "solve"} =>
             UNCHANGED level_vars]_vars

\* C10: when setup_system returns in any cycle the global matrix, right-hand
\* side and solution are zero and sized to the DoF count of the current mesh,
\* there is one zero level matrix per level, sized to the level's DoF count;
\* and the solver starts from the zero vector.
C10_SetupResets ==
    /\ pc = "assemble_system" =>
          LET top == n_levels(cells) - 1
              n   == VertexCount(top)
          IN  /\ mg_dof_handler.n_dofs = n
              /\ DOMAIN solution = 0 .. (n - 1) /\ IsZero(solution)
              /\ DOMAIN system_rhs = 0 .. (n - 1) /\ IsZero(system_rhs)
              /\ sparsity_pattern.rows = n /\ sparsity_pattern.cols = n
              /\ DOMAIN system_matrix = 0 .. (n - 1)
              /\ \A r \in 0 .. (n - 1) :
                    /\ DOMAIN system_matrix[r] = sparsity_pattern.entries[r]
                    /\ r \in sparsity_pattern.entries[r]
                    /\ sparsity_pattern.entries[r] \subseteq 0 .. (n - 1)
              /\ IsZeroMatrix(system_matrix)
              /\ DOMAIN mg_matrices = 0 .. top
              /\ \A l \in 0 .. top :
                    /\ mg_sparsity[l].rows = VertexCount(l)
                    /\ mg_sparsity[l].cols = VertexCount(l)
                    /\ mg_dof_handler.level_n_dofs[l] = VertexCount(l)
                    /\ DOMAIN mg_matrices[l] = 0 .. (VertexCount(l) - 1)
                    /\ \A r \in 0 .. (VertexCount(l) - 1) :
                          /\ DOMAIN mg_matrices[l][r] = mg_sparsity[l].entries[r]
                          /\ r \in mg_sparsity[l].entries[r]
                          /\ mg_sparsity[l].entries[r] \subseteq 0 .. (VertexCount(l) - 1)
                    /\ IsZeroMatrix(mg_matrices[l])
    /\ pc = "solve" => IsZero(solution)

C10_Witness ==
    /\ pc = "assemble_system"
    /\ cycle = 2
    /\ \E f \in files : f[1] = 1 /\ ~IsZero(f[2])

====
